---- MODULE Spec2Model ----
\* Model of the hands-chatbot backend (src/main.py, src/init_azure.py):
\* the FastAPI handlers /start, /chat, /end_conversation, the background
\* sweeper save_finished_threads and the run-wait helper run_agent, all
\* running as cooperative tasks of one asyncio event loop.  One action of
\* the model is what one task executes between two suspension points.
EXTENDS Integers, Sequences, FiniteSets, TLC

\* ------------------------------------------------------------------ bounds
MaxThreads == 2
MaxProcs == 2
MaxRequests == 2
\* seconds by which the wall clock advances in one Tick
TimeStep == 600
\* conversations in the map when the sweeper is studied on its own
MaxEntries == 6
\* events (user messages, runs) of the thread insert_chatbot_message reads
MaxLen == 3

\* ------------------------------------------------------- program constants
\* main.py:52
time_limit_user_message == 600
\* main.py:75, the sweeper's asyncio.sleep
sweep_interval == 600
\* main.py:57
threads_to_check_init == 4

None == "None"
\* init_azure.py:21, the one thread every summary is posted to
agent_summary_thread == 0
\* the user text of a request body
UserText == "Ik wil een afspraak"
\* assistant texts the agent can produce: a plain text, which carries a source
\* annotation (PlainText is the text without it), or structured reservation JSON
PlainText == "Goedendag"
SourcedText == "Goedendag [bron]"
JsonText == "{afspraak}"
DateText == "System message: Vandaag is ..."

Threads == 1..MaxThreads
Procs == 1..MaxProcs
NonTerminal == {"queued", "in_progress"}

VARIABLES
    ONGOING_THREADS,   \* main.py:49; sequence (insertion order of the dict) of
                       \* [thread_id, idle], idle = time.time() - last_message_time
    sweeper,           \* save_finished_threads task: [sleep_left], the seconds
                       \* left of its asyncio.sleep (0: ready to run a cycle)
    handlers,          \* request tasks, one record per slot
    nreq,              \* requests received so far
    messages,          \* agent platform: thread id -> sequence of messages
    runs,              \* agent platform: thread id -> sequence of runs, oldest first
    supabase,          \* relational store: table name -> sequence of rows
    response           \* the request a handler has just answered, with what
                       \* it returned, until the response has left the process

vars == <<ONGOING_THREADS, sweeper, handlers, nreq, messages, runs, supabase, response>>

\* --------------------------------------------------------------- helpers
Min(a, b) == IF a < b THEN a ELSE b
Max(a, b) == IF a > b THEN a ELSE b
\* every idle duration above the limit is compared alike (main.py:66), so
\* idle durations saturate at the first clock value above it
IdleCap == time_limit_user_message + TimeStep

RECURSIVE SeqFilterOut(_, _)
SeqFilterOut(s, id) ==
    IF s = <<>> THEN <<>>
    ELSE IF Head(s).thread_id = id THEN SeqFilterOut(Tail(s), id)
    ELSE <<Head(s)>> \o SeqFilterOut(Tail(s), id)

dict_keys(d) == {d[i].thread_id : i \in 1..Len(d)}
dict_has(d, id) == id \in dict_keys(d)
dict_get(d, id) == (CHOOSE i \in 1..Len(d) : d[i].thread_id = id)
\* ONGOING_THREADS[id] = time.time(): an existing key keeps its place
dict_set(d, id) ==
    IF dict_has(d, id)
    THEN [i \in 1..Len(d) |-> IF d[i].thread_id = id THEN [d[i] EXCEPT !.idle = 0] ELSE d[i]]
    ELSE Append(d, [thread_id |-> id, idle |-> 0])
\* mutant: the entry is not removed
dict_pop_forgotten(d, id) == d
\* ONGOING_THREADS.pop(id, None)
dict_pop(d, id) == SeqFilterOut(d, id)
idle_of(d, id) == d[dict_get(d, id)].idle

\* created platform threads (the summary thread excluded)
created == DOMAIN messages \ {agent_summary_thread}

\* ------------------------------------------------------- agent platform
\* (azure.ai.agents behind init_azure.py; spec section 3: a run is in one of
\*  queued, in_progress, completed, failed)

\* what the agent does with one run: it fails, or completes with one assistant
\* message carrying a text, or completes with an assistant message without text
Outcomes == {"failed", SourcedText, JsonText, "notext"}

\* init_azure.py:27-31
make_message(msgs, thread_id, role, input_message) ==
    [msgs EXCEPT ![thread_id] =
        Append(@, [role |-> role, text_messages |-> <<input_message>>, run |-> 0])]

\* init_azure.py:34-40, ascending order
get_message_list(msgs, thread_id) == msgs[thread_id]

\* the messages of a thread once run number id has ended with outcome o
run_output(msgs, thread_id, id, o) ==
    IF o = "failed" THEN msgs
    ELSE [msgs EXCEPT ![thread_id] =
            Append(@, [role |-> "assistant",
                       text_messages |-> IF o = "notext" THEN <<>> ELSE <<o>>,
                       run |-> id])]

run_status_of(o) == IF o = "failed" THEN "failed" ELSE "completed"

\* init_azure.py:47, project.agents.runs.list: newest run first
runs_list(rs, thread_id) ==
    LET n == Len(rs[thread_id])
    IN [i \in 1..n |-> [id |-> n + 1 - i, status |-> rs[thread_id][n + 1 - i].status]]

\* init_azure.py:59-62, project.agents.runs.get
runs_get(rs, thread_id, run_id) == rs[thread_id][run_id]

\* init_azure.py:68-71.  create_and_process is a call of the synchronous client:
\* it returns when the run has left the non-terminal states, and no other task
\* of the event loop runs meanwhile.
create_and_process(rs, msgs, thread_id, agent_id, o) ==
    LET id == Len(rs[thread_id]) + 1
        run == [status |-> run_status_of(o), agent |-> agent_id]
    IN [runs |-> [rs EXCEPT ![thread_id] = Append(@, run)],
        messages |-> run_output(msgs, thread_id, id, o),
        run |-> [id |-> id, status |-> run.status]]

\* mutant: the wait loop forgets the queued status
in_wait_set_in_progress_only(status) == status = "in_progress"

\* init_azure.py:63
in_wait_set(status) == status \in {"in_progress", "queued"}

\* init_azure.py:47-53: the run the wait loop will poll, 0 when the thread has none
latest_run_of(rs, thread_id) ==
    LET rl == runs_list(rs, thread_id)
    IN IF Len(rl) # 0 THEN rl[1].id ELSE 0

\* mutant: run_agent does not wait for the prior run
must_wait_skipped(rs, thread_id, latest_run) == FALSE

\* init_azure.py:58-66: TRUE when the task has to sleep once more
must_wait(rs, thread_id, latest_run) ==
    /\ latest_run # 0
    /\ in_wait_set(runs_get(rs, thread_id, latest_run).status)

\* ------------------------------------------------ text helpers (util.py)
\* remove_source strips the source annotation of an assistant text
remove_source(text) == IF text = SourcedText THEN PlainText ELSE text
\* extract_json returns the structured data of a JSON text and raises
\* ValueError (ok = FALSE) on any other text
extract_json(text) ==
    IF text = JsonText THEN [ok |-> TRUE, value |-> "afspraak"]
    ELSE [ok |-> FALSE, value |-> None]

\* ------------------------------------------------------ relational store
row(role, thread_id, message) ==
    [role |-> role, thread_id |-> thread_id, message |-> message, agent_id |-> "agent_data"]
db_insert(db, table_name, r) == [db EXCEPT ![table_name] = Append(@, r)]

\* main.py:102-103: index of the newest assistant message that has a text, 0 if none
RECURSIVE latest_assistant(_, _)
latest_assistant(ml, i) ==
    IF i = 0 THEN 0
    ELSE IF ml[i].role = "assistant" /\ ml[i].text_messages # <<>> THEN i
    ELSE latest_assistant(ml, i - 1)

reply(message, thread_id) ==
    [role |-> "assistant", message |-> message, thread_id |-> thread_id]
\* a handler's bare return / a response without the three keys
NoReply == [role |-> None, message |-> None, thread_id |-> 0]

\* main.py:92-98: a given msg is stored as it is
insert_given_message(db, thread_id, msg) ==
    [db |-> db_insert(db, "chatbot_data", row("assistant", thread_id, msg.message)),
     ret |-> NoReply, rows |-> 1]

\* mutant: reservation JSON of the data agent is stored like a plain message
insert_structured_stored(db, thread_id, table_name, chatbot_type, value) ==
    [db |-> db_insert(db, table_name, row("assistant", thread_id, value)),
     ret |-> reply(value, thread_id), rows |-> 1]

\* main.py:111-123: structured JSON
insert_structured(db, thread_id, table_name, chatbot_type, value) ==
    IF chatbot_type = "summary"
    THEN [db |-> db_insert(db, table_name, value), ret |-> NoReply, rows |-> 1]
    ELSE [db |-> db, ret |-> reply(value, thread_id), rows |-> 0]

\* mutant: a text that is not JSON goes to the chat table whatever table is given
insert_plain_into_chatbot_data(db, thread_id, table_name, text) ==
    [db |-> db_insert(db, "chatbot_data", row("assistant", thread_id, text)),
     ret |-> reply(text, thread_id), rows |-> 1]

\* main.py:127-134: a text that is not JSON
insert_plain(db, thread_id, table_name, text) ==
    [db |-> db_insert(db, table_name, row("assistant", thread_id, text)),
     ret |-> reply(text, thread_id), rows |-> 1]

\* main.py:100-136, the call without msg.  ret is the returned dict, rows the
\* number of rows the call inserted.
insert_chatbot_message(msgs, db, thread_id, table_name, chatbot_type) ==
    LET ml == get_message_list(msgs, thread_id)
        i == latest_assistant(ml, Len(ml))
    IN IF i = 0
       THEN [db |-> db, ret |-> reply("No response", thread_id), rows |-> 0]
       ELSE LET text == remove_source(ml[i].text_messages[Len(ml[i].text_messages)])
                ej == extract_json(text)
            IN IF ej.ok
               THEN insert_structured(db, thread_id, table_name, chatbot_type, ej.value)
               ELSE insert_plain(db, thread_id, table_name, text)

\* cal_com_methods.try_to_make_an_appointment: the reply as it is, or the reply
\* overridden by the outcome of the booking
AppointmentText == "Afspraak gemaakt"
try_to_make_an_appointment(chatbot_message, booked) ==
    IF booked THEN [chatbot_message EXCEPT !.message = AppointmentText]
    ELSE chatbot_message

\* --------------------------------------------------------------- tasks
\* what is kept of a request that has been answered
answered(rec, resp) ==
    [req |-> rec.req, user_input |-> rec.user_input, thread_id |-> rec.thread_id,
     run_status |-> rec.run_status, chatbot_message |-> rec.chatbot_message.message,
     resp |-> resp, user_rows |-> rec.user_rows, assistant_rows |-> rec.assistant_rows]

IdleHandler ==
    [pc |-> "idle", req |-> "none", user_input |-> None, thread_id |-> 0,
     latest_run |-> 0, run_status |-> "none", chatbot_message |-> NoReply,
     user_rows |-> 0, assistant_rows |-> 0]

NoResponse == answered(IdleHandler, NoReply)

\* no response is on its way out
ready == response = NoResponse

free(p) == handlers[p].pc = "idle"
\* a request is served by the lowest free slot
slot(p) == free(p) /\ \A q \in Procs : q < p => ~free(q)

Init ==
    /\ ONGOING_THREADS = <<>>
    \* main.py:23: the lifespan has created the sweeper task, which is ready
    /\ sweeper = [sleep_left |-> 0]
    /\ handlers = [p \in Procs |-> IdleHandler]
    /\ nreq = 0
    \* thread 1 is a conversation of an earlier life of the service: the platform
    \* keeps threads and runs across restarts, and its last run is still queued
    /\ messages = (agent_summary_thread :> <<>>)
                  @@ (1 :> <<[role |-> "user", text_messages |-> <<DateText>>, run |-> 0]>>)
    /\ runs = (agent_summary_thread :> <<>>)
              @@ (1 :> <<[status |-> "queued", agent |-> "agent_data"]>>)
    /\ supabase = [chatbot_data |-> <<>>, hands_summary_data |-> <<>>]
    /\ response = NoResponse

\* main.py:185, 210
RunFailed == [role |-> "assistant", message |-> "Run failed", thread_id |-> 0]

\* mutant: the failed status is not tested
run_failed_ignored(status) == FALSE

\* main.py:184, 209
run_failed(status) == status = "failed"

\* mutant: the test of main.py:166 is inverted
is_initial_inverted(user_input) == user_input # None

\* main.py:166
is_initial(user_input) == user_input = None

\* main.py:69, 227.  make_summary is a coroutine function (async def, main.py:231)
\* and both call sites call it without await and without create_task: the call
\* builds a coroutine object that is dropped, and no statement of the body
\* (main.py:233-252: select the rows, post the conversation to the summary
\* thread, run the summary agent, insert the summary row) runs.
make_summary(thread_id) == UNCHANGED <<messages, runs, supabase>>

\* the handler of slot p returns resp: the task ends and the slot is free
done(p, rec, resp) ==
    /\ handlers' = [handlers EXCEPT ![p] = IdleHandler]
    /\ response' = answered(rec, resp)

\* What a handler does from the last status check of run_agent's wait loop on:
\* init_azure.py:68-73, then main.py:168 (/start without message),
\* main.py:184-190 (/start with message) or main.py:209-214 (/chat, up to the
\* await of the appointment helper).
resume(p, rec, rs, msgs, db, o) ==
    LET t == rec.thread_id
        cp == create_and_process(rs, msgs, t, "agent_data", o)
        r1 == [rec EXCEPT !.run_status = cp.run.status]
        icm == insert_chatbot_message(cp.messages, db, t, "chatbot_data", "data")
        r2 == [r1 EXCEPT !.assistant_rows = @ + icm.rows, !.chatbot_message = icm.ret]
    IN /\ runs' = cp.runs
       /\ messages' = cp.messages
       /\ IF rec.req = "start" /\ is_initial(rec.user_input)
          THEN /\ supabase' = db
               /\ done(p, r1, [NoReply EXCEPT !.thread_id = t])
          ELSE IF run_failed(cp.run.status)
          THEN /\ supabase' = db
               /\ done(p, r1, RunFailed)
          ELSE /\ supabase' = icm.db
               /\ IF rec.req = "start"
                  THEN done(p, r2, icm.ret)
                  ELSE /\ handlers' = [handlers EXCEPT ![p] =
                              [r2 EXCEPT !.pc = "appointment", !.latest_run = 0]]
                       /\ UNCHANGED response

\* init_azure.py:46-66: run_agent up to its first suspension, or through to the
\* end when the wait loop does not sleep
run_agent(p, rec, rs, msgs, db, o) ==
    LET latest_run == latest_run_of(rs, rec.thread_id)
    IN IF must_wait(rs, rec.thread_id, latest_run)
       THEN /\ handlers' = [handlers EXCEPT ![p] =
                   [rec EXCEPT !.pc = "poll", !.latest_run = latest_run]]
            /\ messages' = msgs
            /\ supabase' = db
            /\ runs' = rs
            /\ UNCHANGED response
       ELSE resume(p, rec, rs, msgs, db, o)

\* mutant: /start without a message returns the thread id without a run
initial_start_without_run(p, rec, rs, msgs, db, o) ==
    /\ runs' = rs
    /\ messages' = msgs
    /\ supabase' = db
    /\ done(p, rec, [NoReply EXCEPT !.thread_id = rec.thread_id])

\* main.py:167-168
initial_start(p, rec, rs, msgs, db, o) == run_agent(p, rec, rs, msgs, db, o)

\* main.py:150-190, POST /start.  The new thread has no run, so the handler
\* runs from the request to its response without a suspension.
Start(p, user_input, o) ==
    LET t == Cardinality(created) + 1
        \* main.py:156, create_thread
        rs == runs @@ (t :> <<>>)
        \* main.py:162
        m1 == make_message(messages @@ (t :> <<>>), t, "user", DateText)
        rec == [IdleHandler EXCEPT !.req = "start", !.user_input = user_input, !.thread_id = t]
    IN /\ ready /\ slot(p) /\ nreq < MaxRequests
       /\ t \in Threads
       /\ nreq' = nreq + 1
       /\ UNCHANGED sweeper
       /\ IF is_initial(user_input)
          THEN /\ UNCHANGED ONGOING_THREADS
               /\ initial_start(p, rec, rs, m1, supabase, o)
          ELSE /\ ONGOING_THREADS' = dict_set(ONGOING_THREADS, t)
               /\ run_agent(p, [rec EXCEPT !.user_rows = 1], rs,
                            make_message(m1, t, "user", user_input),
                            db_insert(supabase, "chatbot_data", row("user", t, user_input)), o)

\* main.py:192-214, POST /chat up to the first suspension
Chat(p, t, o) ==
    LET rec == [IdleHandler EXCEPT !.req = "chat", !.user_input = UserText,
                                   !.thread_id = t, !.user_rows = 1]
    IN /\ ready /\ slot(p) /\ nreq < MaxRequests
       /\ t \in created
       /\ nreq' = nreq + 1
       /\ UNCHANGED sweeper
       /\ ONGOING_THREADS' = dict_set(ONGOING_THREADS, t)
       /\ run_agent(p, rec, runs,
                    make_message(messages, t, "user", UserText),
                    db_insert(supabase, "chatbot_data", row("user", t, UserText)), o)

\* init_azure.py:58-73: a task wakes from asyncio.sleep(0.5) in the wait loop
Poll(p, o) ==
    LET rec == handlers[p]
    IN /\ ready /\ rec.pc = "poll"
       /\ IF must_wait(runs, rec.thread_id, rec.latest_run)
          THEN UNCHANGED vars
          ELSE /\ resume(p, rec, runs, messages, supabase, o)
               /\ UNCHANGED <<ONGOING_THREADS, sweeper, nreq>>

\* main.py:214-218: the appointment helper returns
Appointment(p, booked) ==
    LET rec == handlers[p]
        msg == try_to_make_an_appointment(rec.chatbot_message, booked)
        ins == insert_given_message(supabase, rec.thread_id, msg)
    IN /\ ready /\ rec.pc = "appointment"
       /\ IF msg.message # rec.chatbot_message.message
          THEN /\ supabase' = ins.db
               /\ done(p, [rec EXCEPT !.assistant_rows = @ + ins.rows], msg)
          ELSE /\ UNCHANGED supabase
               /\ done(p, rec, msg)
       /\ UNCHANGED <<ONGOING_THREADS, sweeper, nreq, messages, runs>>

\* main.py:220-227, POST /end_conversation
EndConversation(p, t) ==
    /\ ready /\ slot(p) /\ nreq < MaxRequests
    /\ t \in created
    /\ nreq' = nreq + 1
    /\ ONGOING_THREADS' = dict_pop(ONGOING_THREADS, t)
    /\ make_summary(t)
    /\ done(p, [IdleHandler EXCEPT !.req = "end_conversation", !.thread_id = t], NoReply)
    /\ UNCHANGED sweeper

\* mutant: the limit itself counts as timed out
timed_out_inclusive(idle) == idle >= time_limit_user_message
\* mutant: the subtraction is the wrong way round
timed_out_reversed(idle) == 0 - idle > time_limit_user_message

\* main.py:66
timed_out(idle) == idle > time_limit_user_message

\* mutant: the counter is decremented for every entry the loop looks at
RECURSIVE scan_counting(_, _, _)
scan_counting(items, threads_to_check, threads_to_remove) ==
    IF items = <<>> \/ threads_to_check = 0 THEN threads_to_remove
    ELSE scan_counting(Tail(items), threads_to_check - 1,
                       IF timed_out(Head(items).idle)
                       THEN Append(threads_to_remove, Head(items).thread_id)
                       ELSE threads_to_remove)

\* main.py:61-69: the loop over the dict's items.  threads_to_check is tested in
\* every iteration and changed in none (main.py:71 is after the loop).
RECURSIVE scan(_, _, _)
scan(items, threads_to_check, threads_to_remove) ==
    IF items = <<>> \/ threads_to_check = 0 THEN threads_to_remove
    ELSE scan(Tail(items), threads_to_check,
              IF timed_out(Head(items).idle)
              THEN Append(threads_to_remove, Head(items).thread_id)
              ELSE threads_to_remove)

\* main.py:72-73
RECURSIVE pop_all(_, _)
pop_all(d, ids) ==
    IF ids = <<>> THEN d ELSE pop_all(dict_pop(d, Head(ids)), Tail(ids))

\* main.py:55-75: one cycle of save_finished_threads, from waking to the next
\* sleep; there is no await between the scan and the removals
Sweep ==
    LET threads_to_remove == scan(ONGOING_THREADS, threads_to_check_init, <<>>)
    IN /\ ready /\ sweeper.sleep_left = 0
       /\ UNCHANGED <<messages, runs, supabase>>
       /\ \A i \in 1..Len(threads_to_remove) : make_summary(threads_to_remove[i])
       /\ ONGOING_THREADS' = pop_all(ONGOING_THREADS, threads_to_remove)
       /\ sweeper' = [sleep_left |-> sweep_interval]
       /\ UNCHANGED <<handlers, nreq, response>>

\* the wall clock advances by TimeStep seconds
Tick ==
    /\ ready
    /\ ONGOING_THREADS' = [i \in 1..Len(ONGOING_THREADS) |->
           [ONGOING_THREADS[i] EXCEPT !.idle = Min(@ + TimeStep, IdleCap)]]
    /\ sweeper' = [sweeper EXCEPT !.sleep_left = Max(@ - TimeStep, 0)]
    /\ UNCHANGED <<handlers, nreq, messages, runs, supabase, response>>

\* the platform works on a run that an earlier caller left unfinished
PlatformStep(t, i, o) ==
    /\ ready
    /\ t \in DOMAIN runs /\ i \in 1..Len(runs[t])
    /\ runs[t][i].status \in NonTerminal
    /\ IF runs[t][i].status = "queued"
       THEN /\ runs' = [runs EXCEPT ![t][i].status = "in_progress"]
            /\ UNCHANGED messages
       ELSE /\ runs' = [runs EXCEPT ![t][i].status = run_status_of(o)]
            /\ messages' = run_output(messages, t, i, o)
    /\ UNCHANGED <<ONGOING_THREADS, sweeper, handlers, nreq, supabase, response>>

\* the response leaves the process: a handler's return hands it to the HTTP
\* layer in the step that produced it, before any other task runs
Respond ==
    /\ response # NoResponse
    /\ response' = NoResponse
    /\ UNCHANGED <<ONGOING_THREADS, sweeper, handlers, nreq, messages, runs, supabase>>

Next ==
    \/ \E p \in Procs, u \in {None, UserText}, o \in Outcomes : Start(p, u, o)
    \/ \E p \in Procs, t \in Threads, o \in Outcomes : Chat(p, t, o)
    \/ \E p \in Procs, o \in Outcomes : Poll(p, o)
    \/ \E p \in Procs, b \in BOOLEAN : Appointment(p, b)
    \/ \E p \in Procs, t \in Threads : EndConversation(p, t)
    \/ Sweep
    \/ Tick
    \/ \E t \in Threads, i \in 1..MaxRequests + 1, o \in Outcomes : PlatformStep(t, i, o)
    \/ Respond

Spec == Init /\ [][Next]_vars

\* The sweeper cannot be starved: the event loop runs every ready task, and
\* no step of a task blocks for ever (a sleeping wait loop yields).  The clock
\* advances and responses are sent.
LiveSpec == Spec /\ WF_vars(Tick) /\ WF_vars(Sweep) /\ WF_vars(Respond)

\* init_azure.py:58-66: a task that sleeps in the wait loop is woken after 0.5 s
\* and the event loop runs it, so a caller whose polled run has ended takes its
\* next step.  Nothing makes the platform end a run.
WaitSpec ==
    Spec /\ WF_vars(Respond) /\ \A p \in Procs : WF_vars(\E o \in Outcomes : Poll(p, o))

\* ------------------------------------------------- the sweeper on its own
\* main.py:150-190: the platform and the store after n served POST /start with
\* a message, each answered with a plain text, on a platform without threads
RECURSIVE started(_)
started(n) ==
    IF n = 0
    THEN [messages |-> (agent_summary_thread :> <<>>),
          runs |-> (agent_summary_thread :> <<>>),
          supabase |-> [chatbot_data |-> <<>>, hands_summary_data |-> <<>>]]
    ELSE LET s == started(n - 1)
             m == make_message(make_message(s.messages @@ (n :> <<>>), n, "user", DateText),
                               n, "user", UserText)
             db == db_insert(s.supabase, "chatbot_data", row("user", n, UserText))
             cp == create_and_process(s.runs @@ (n :> <<>>), m, n, "agent_data", SourcedText)
             icm == insert_chatbot_message(cp.messages, db, n, "chatbot_data", "data")
         IN [messages |-> cp.messages, runs |-> cp.runs, supabase |-> icm.db]

\* The service has served n POST /start with a message, the oldest first, and
\* no other request: thread i is entry i of the map (main.py:177), and an older
\* entry is idle for at least as long as a younger one.  No handler is running.
SweepInit ==
    \E n \in 0..MaxEntries :
        /\ \E idle \in [1..n -> {0, TimeStep, IdleCap}] :
              /\ \A i \in 1..n - 1 : idle[i] >= idle[i + 1]
              /\ ONGOING_THREADS = [i \in 1..n |-> [thread_id |-> i, idle |-> idle[i]]]
        /\ sweeper = [sleep_left |-> 0]
        /\ handlers = [p \in Procs |-> IdleHandler]
        /\ nreq = n
        /\ messages = started(n).messages
        /\ runs = started(n).runs
        /\ supabase = started(n).supabase
        /\ response = NoResponse

\* main.py:54-75: the sweeper's cycles and the clock, while no request arrives
SweepNext == Sweep \/ Tick

SweepSpec == SweepInit /\ [][SweepNext]_vars

\* --------------------------------------- insert_chatbot_message on its own
\* The platform and the chat table after the events h on thread 1: a user
\* message (main.py:199-205: posted to the thread and stored as a user row) or
\* a run of the data agent with its outcome (init_azure.py:68-71).  The thread
\* starts with the date message (main.py:162).
RECURSIVE history(_)
history(h) ==
    IF h = <<>>
    THEN [messages |-> make_message((agent_summary_thread :> <<>>) @@ (1 :> <<>>),
                                    1, "user", DateText),
          runs |-> (agent_summary_thread :> <<>>) @@ (1 :> <<>>),
          supabase |-> [chatbot_data |-> <<>>, hands_summary_data |-> <<>>]]
    ELSE LET s == history(SubSeq(h, 1, Len(h) - 1))
             e == h[Len(h)]
             cp == create_and_process(s.runs, s.messages, 1, "agent_data", e)
         IN IF e = UserText
            THEN [messages |-> make_message(s.messages, 1, "user", UserText),
                  runs |-> s.runs,
                  supabase |-> db_insert(s.supabase, "chatbot_data", row("user", 1, UserText))]
            ELSE [messages |-> cp.messages, runs |-> cp.runs, supabase |-> s.supabase]

InsertInit ==
    \E n \in 0..MaxLen :
        \E h \in [1..n -> {UserText} \cup Outcomes] :
            /\ messages = history(h).messages
            /\ runs = history(h).runs
            /\ supabase = history(h).supabase
            /\ ONGOING_THREADS = <<>>
            /\ sweeper = [sleep_left |-> 0]
            /\ handlers = [p \in Procs |-> IdleHandler]
            /\ nreq = 0
            /\ response = NoResponse

\* main.py:78-136: one call of insert_chatbot_message without msg; response
\* keeps the arguments of the call and what it returned
InsertCall(thread_id, table_name, chatbot_type) ==
    LET icm == insert_chatbot_message(messages, supabase, thread_id, table_name, chatbot_type)
    IN /\ ready
       /\ supabase' = icm.db
       /\ response' = [req |-> "insert_chatbot_message", thread_id |-> thread_id,
                       table_name |-> table_name, chatbot_type |-> chatbot_type,
                       resp |-> icm.ret, rows |-> icm.rows]
       /\ UNCHANGED <<ONGOING_THREADS, sweeper, handlers, nreq, messages, runs>>

InsertNext ==
    \E thread_id \in {agent_summary_thread, 1},
       table_name \in {"chatbot_data", "hands_summary_data"},
       chatbot_type \in {"data", "summary"} : InsertCall(thread_id, table_name, chatbot_type)

InsertSpec == InsertInit /\ [][InsertNext]_vars

\* ================================================================ claims
keys == dict_keys(ONGOING_THREADS)
\* a step in which the sweeper runs one cycle: only Sweep restarts the sleep
SweepStep == sweeper.sleep_left = 0 /\ sweeper'.sleep_left = sweep_interval
\* a step in which a handler returns its response
Answers(req) == response = NoResponse /\ response' # NoResponse /\ response'.req = req
\* a step in which a request arrives
Arrives == nreq' = nreq + 1
\* the entries that are idle for longer than the timeout
Expired == {t \in keys : idle_of(ONGOING_THREADS, t) > 600}
SummaryPosts == Len(messages[agent_summary_thread])
SummaryRuns == Len(runs[agent_summary_thread])
SummaryRows == Len(supabase.hands_summary_data)
RowsOf(t, role) ==
    {i \in 1..Len(supabase.chatbot_data) :
        supabase.chatbot_data[i].thread_id = t /\ supabase.chatbot_data[i].role = role}

\* C1: a sweep cycle removes every entry that is idle for longer than 600 s and
\* carries out the summarization steps of make_summary (post the conversation
\* to the summary thread, run the summary agent, insert the summary row) once
\* for each of them.
C1_SweepSummarizesOnce ==
    [][SweepStep =>
        /\ \A t \in Expired : ~dict_has(ONGOING_THREADS', t)
        /\ SummaryPosts' = SummaryPosts + Cardinality(Expired)
        /\ SummaryRuns' = SummaryRuns + Cardinality(Expired)
        /\ SummaryRows' = SummaryRows + Cardinality(Expired)]_vars

\* C2: a sweep cycle removes no entry whose idle time is within the timeout:
\* such an entry is in the map after the cycle with its timestamp, and no
\* handler takes a step inside the cycle.
C2_SweepKeepsFreshThreads ==
    [][SweepStep =>
        /\ \A t \in keys \ Expired :
              /\ dict_has(ONGOING_THREADS', t)
              /\ idle_of(ONGOING_THREADS', t) = idle_of(ONGOING_THREADS, t)
        /\ \A t \in keys \ dict_keys(ONGOING_THREADS') : idle_of(ONGOING_THREADS, t) > 600
        /\ handlers' = handlers /\ nreq' = nreq]_vars

\* an entry set before the last cycle, idle for no longer than the timeout, is
\* in the map right after that cycle
C2_Witness ==
    /\ sweeper.sleep_left = sweep_interval
    /\ \E t \in keys : idle_of(ONGOING_THREADS, t) > 0 /\ idle_of(ONGOING_THREADS, t) <= 600

NonTerminalRuns(t) == {i \in 1..Len(runs[t]) : runs[t][i].status \in NonTerminal}

\* C3: no step adds a run to a thread that has a queued or in_progress run, and
\* a thread never has more than one such run.
C3_NoRunWhileActive ==
    /\ [](\A t \in DOMAIN runs : Cardinality(NonTerminalRuns(t)) <= 1)
    /\ [][\A t \in DOMAIN runs :
            Len(runs'[t]) > Len(runs[t]) => NonTerminalRuns(t) = {}]_vars

\* a caller has created a run on thread 1, whose earlier run was queued at
\* first, while another caller is still in the wait loop for that earlier run
C3_Witness ==
    /\ Len(runs[1]) >= 2
    /\ \E p \in Procs : handlers[p].pc = "poll" /\ handlers[p].thread_id = 1
                        /\ handlers[p].latest_run = 1

\* C4: POST /start with a null message creates a thread and returns its id,
\* writes no row and leaves the ongoing-threads map as it is.
C4_NullStart ==
    [][(Answers("start") /\ response'.user_input = None) =>
        /\ response'.resp = [NoReply EXCEPT !.thread_id = response'.thread_id]
        /\ response'.thread_id \notin DOMAIN messages
        /\ response'.thread_id \in DOMAIN messages'
        /\ supabase' = supabase
        /\ ONGOING_THREADS' = ONGOING_THREADS]_vars

C4_Witness ==
    /\ response.req = "start" /\ response.user_input = None
    /\ response.resp.thread_id \in created
    /\ RowsOf(response.resp.thread_id, "user") = {}
    /\ ~dict_has(ONGOING_THREADS, response.resp.thread_id)

\* C5: after POST /end_conversation the thread is not in the map; when it has
\* no persisted chat row, nothing is posted to the summary thread, no run is
\* started on it and no summary row is inserted.
C5_EndConversation ==
    [][Answers("end_conversation") =>
        LET t == response'.thread_id
        IN /\ ~dict_has(ONGOING_THREADS', t)
           /\ (RowsOf(t, "user") \cup RowsOf(t, "assistant") = {}) =>
                 /\ SummaryPosts' = SummaryPosts
                 /\ SummaryRuns' = SummaryRuns
                 /\ SummaryRows' = SummaryRows]_vars

\* a conversation on which no message was ever sent has been ended
C5_Witness ==
    /\ response.req = "end_conversation"
    /\ RowsOf(response.thread_id, "user") \cup RowsOf(response.thread_id, "assistant") = {}
    /\ ~dict_has(ONGOING_THREADS, response.thread_id)

\* C6 as claimed: after POST /start with a null message the new thread has
\* no run.
C6_NullStartCreatesNoRun ==
    (response.req = "start" /\ response.user_input = None)
        => Len(runs[response.thread_id]) = 0

\* C6 as amended: POST /start initiates exactly one agent run on the new
\* thread whether or not a message was supplied.
C6_StartAlwaysRuns ==
    response.req = "start" =>
        /\ Len(runs[response.thread_id]) = 1
        /\ runs[response.thread_id][1].agent = "agent_data"
        /\ response.run_status = runs[response.thread_id][1].status

C6_Witness ==
    /\ response.req = "start" /\ response.user_input = None
    /\ Len(runs[response.thread_id]) = 1
    /\ response.resp.thread_id = response.thread_id

AssistantRows == {i \in 1..Len(supabase.chatbot_data) : supabase.chatbot_data[i].role = "assistant"}
WithMessage(r) == r.req = "chat" \/ (r.req = "start" /\ r.user_input # None)

\* C7: a /start with a message or a /chat whose run has failed answers with the
\* payload {role: assistant, message: Run failed}; the request has written its
\* user row and no assistant row, and the step that handles the failure
\* inserts no assistant row; when it follows a wait it leaves the store and
\* the map as they are.
C7_RunFailed ==
    /\ []((WithMessage(response) /\ response.run_status = "failed") =>
            /\ response.resp = [role |-> "assistant", message |-> "Run failed", thread_id |-> 0]
            /\ response.user_rows = 1
            /\ response.assistant_rows = 0)
    /\ [][(response = NoResponse /\ WithMessage(response') /\ response'.run_status = "failed") =>
            /\ AssistantRows' = AssistantRows
            /\ \E i \in 1..Len(supabase'.chatbot_data) :
                  /\ supabase'.chatbot_data[i].thread_id = response'.thread_id
                  /\ supabase'.chatbot_data[i].role = "user"
            /\ (~Arrives => (supabase' = supabase /\ ONGOING_THREADS' = ONGOING_THREADS))]_vars

\* a /chat that waited for an earlier run has answered that its run failed
C7_Witness ==
    /\ response.req = "chat" /\ response.run_status = "failed"
    /\ Len(runs[response.thread_id]) >= 2
    /\ response.resp.message = "Run failed"

\* C8 as claimed: every /chat whose run does not fail has written one user row
\* and one assistant row.
C8_OneRowPerTurn ==
    (response.req = "chat" /\ response.run_status # "failed") =>
        /\ response.user_rows = 1
        /\ response.assistant_rows = 1

\* C8 as amended: every /chat whose run does not fail has written one user
\* row; it has written an assistant row for the extracted reply only when that
\* reply is plain text (none for reservation JSON, none when the thread has no
\* assistant text), and one more assistant row when the message returned by
\* the appointment helper differs from the extracted one.
C8_RowsPerTurn ==
    (response.req = "chat" /\ response.run_status # "failed") =>
        /\ response.user_rows = 1
        /\ response.assistant_rows =
              (IF response.chatbot_message \in {"afspraak", "No response"} THEN 0 ELSE 1)
              + (IF response.resp.message # response.chatbot_message THEN 1 ELSE 0)

\* a turn whose reply is reservation JSON, returned as it is: no assistant row
C8_Witness ==
    /\ response.req = "chat" /\ response.run_status = "completed"
    /\ response.chatbot_message = "afspraak"
    /\ response.resp.message = "afspraak"
    /\ response.assistant_rows = 0
    /\ RowsOf(response.thread_id, "assistant") = {}

\* a step in which a user message for thread t arrives: /chat on t, or /start
\* with a message, which creates t
UserMessage(t) ==
    /\ Arrives
    /\ \/ \E p \in Procs : /\ handlers[p].pc = "idle" /\ handlers'[p].pc # "idle"
                           /\ handlers'[p].thread_id = t /\ WithMessage(handlers'[p])
       \/ /\ response' # NoResponse /\ response'.thread_id = t /\ WithMessage(response')

\* C9: an entry of the map is created, or its timestamp set to the current
\* time, only by a user message for its thread; an entry is removed only by a
\* sweep cycle or by /end_conversation for its thread; every other step leaves
\* every timestamp as it is (the clock alone makes the idle times grow).
C9_MapFrame ==
    [][\/ Tick
       \/ \A t \in Threads :
            LET had == dict_has(ONGOING_THREADS, t)
                has == dict_has(ONGOING_THREADS', t)
            IN /\ (has /\ ~had) => (UserMessage(t) /\ idle_of(ONGOING_THREADS', t) = 0)
               /\ (had /\ ~has) =>
                     (SweepStep \/ (Answers("end_conversation") /\ response'.thread_id = t))
               /\ (had /\ has /\ idle_of(ONGOING_THREADS', t) # idle_of(ONGOING_THREADS, t)) =>
                     (UserMessage(t) /\ idle_of(ONGOING_THREADS', t) = 0)]_vars

\* /start with a null message has been answered while the map holds an entry
\* that a user message created and the clock has aged
C9_Witness ==
    /\ response.req = "start" /\ response.user_input = None
    /\ \E t \in keys : idle_of(ONGOING_THREADS, t) > 0

\* C10: every entry of the map is eventually removed (the requests of a
\* behaviour are finitely many, so every entry stops receiving messages),
\* whatever handlers are suspended in the wait loop.
C10_EventuallySwept ==
    \A t \in Threads : dict_has(ONGOING_THREADS, t) ~> ~dict_has(ONGOING_THREADS, t)

\* the only request so far is a /chat that is suspended in the wait loop, and
\* its thread has been removed from the map: by a sweep cycle
C10_Witness ==
    /\ nreq = 1
    /\ handlers[1].pc = "poll" /\ handlers[1].req = "chat"
    /\ ~dict_has(ONGOING_THREADS, handlers[1].thread_id)

Polling(p) == handlers[p].pc = "poll"
\* the run that the caller of slot p polls is queued or in_progress
PriorRunActive(p) ==
    runs[handlers[p].thread_id][handlers[p].latest_run].status \in NonTerminal

\* C12: run_agent waits for the prior run without a timeout.  A run is added
\* to a thread that has a run only when its latest run has left {queued,
\* in_progress}; a caller whose polled run is still queued or in_progress
\* stays in the wait loop as it is (it creates no run and does not return);
\* a caller leaves the wait loop only in a step that creates its run; and a
\* caller whose polled run has left {queued, in_progress} eventually leaves
\* the wait loop.
C12_WaitsWithoutTimeout ==
    /\ [][\A t \in DOMAIN runs :
            (Len(runs[t]) > 0 /\ Len(runs'[t]) > Len(runs[t]))
                => runs[t][Len(runs[t])].status \notin NonTerminal]_vars
    /\ [][\A p \in Procs :
            (Polling(p) /\ PriorRunActive(p)) => handlers'[p] = handlers[p]]_vars
    /\ [][\A p \in Procs :
            (Polling(p) /\ handlers'[p] # handlers[p]) =>
                Len(runs'[handlers[p].thread_id]) = Len(runs[handlers[p].thread_id]) + 1]_vars
    /\ \A p \in Procs : (Polling(p) /\ ~PriorRunActive(p)) ~> ~Polling(p)

\* The second request found slot 1 busy and run 1 of thread 1 queued or
\* in_progress, so the first request was in the wait loop for run 1 then: it
\* has since created run 2, after run 1 ended, and the second is still waiting
C12_Witness ==
    /\ handlers[1].pc = "appointment" /\ handlers[1].thread_id = 1
    /\ handlers[2].pc = "poll" /\ handlers[2].thread_id = 1 /\ handlers[2].latest_run = 1
    /\ Len(runs[1]) = 2 /\ runs[1][2].status = "completed"

\* a step in which a handler reads the messages of thread t to extract the
\* assistant reply: main.py:212 (/chat goes on to the appointment helper) or
\* main.py:188 (/start with a message answers with the reply)
Reads(t) ==
    \/ \E p \in Procs : /\ handlers[p].pc # "appointment"
                        /\ handlers'[p].pc = "appointment"
                        /\ handlers'[p].thread_id = t
    \/ /\ Answers("start") /\ response'.user_input # None
       /\ response'.run_status # "failed" /\ response'.thread_id = t

\* C13: when a handler reads the messages of a thread to extract the assistant
\* reply, no run of that thread is queued or in_progress, and the thread's
\* newest run is the one the handler has created in the same step, completed.
C13_ReadsAfterRun ==
    [][\A t \in Threads : Reads(t) =>
        /\ NonTerminalRuns(t)' = {}
        /\ Len(runs'[t]) = (IF t \in DOMAIN runs THEN Len(runs[t]) ELSE 0) + 1
        /\ runs'[t][Len(runs'[t])].status = "completed"]_vars

\* two concurrent /chat requests on thread 1, whose first run was queued at
\* first, have both created their run and read the reply
C13_Witness ==
    /\ \A p \in {1, 2} : handlers[p].pc = "appointment" /\ handlers[p].thread_id = 1
    /\ Len(runs[1]) = 3
    /\ NonTerminalRuns(1) = {}

\* a step that is one call of insert_chatbot_message
InsertStep ==
    response = NoResponse /\ response' # NoResponse /\ response'.req = "insert_chatbot_message"
\* the assistant messages of a message list that have a text
AssistantTexts(ml) ==
    {i \in 1..Len(ml) : ml[i].role = "assistant" /\ ml[i].text_messages # <<>>}
\* the last text of the newest of them
LatestText(ml) ==
    LET i == CHOOSE i \in AssistantTexts(ml) : \A j \in AssistantTexts(ml) : j <= i
    IN ml[i].text_messages[Len(ml[i].text_messages)]

\* C14: a call of insert_chatbot_message whose latest assistant text is not
\* JSON appends the row {role: assistant, thread_id, message, agent_id} with
\* that text (its source annotation removed) to the given table, leaves the
\* other table as it is and returns the text as the message; a call whose
\* latest assistant text is JSON and whose chatbot type is data inserts no row
\* and returns the extracted value as the message.
C14_PlainFallback ==
    [][InsertStep =>
        LET c == response'
            ml == messages[c.thread_id]
        IN AssistantTexts(ml) # {} =>
            /\ LatestText(ml) = SourcedText =>
                  /\ supabase'[c.table_name] =
                        Append(supabase[c.table_name],
                               [role |-> "assistant", thread_id |-> c.thread_id,
                                message |-> PlainText, agent_id |-> "agent_data"])
                  /\ \A tb \in DOMAIN supabase \ {c.table_name} : supabase'[tb] = supabase[tb]
                  /\ c.resp = [role |-> "assistant", message |-> PlainText,
                               thread_id |-> c.thread_id]
            /\ (LatestText(ml) = JsonText /\ c.chatbot_type = "data") =>
                  /\ supabase' = supabase
                  /\ c.resp = [role |-> "assistant", message |-> "afspraak",
                               thread_id |-> c.thread_id]]_vars

\* a call for the summary table on a thread whose latest assistant text is
\* plain has stored it there, after a user row of the same thread in the
\* chat table, and returned it
C14_Witness ==
    /\ response.req = "insert_chatbot_message"
    /\ response.table_name = "hands_summary_data"
    /\ AssistantTexts(messages[response.thread_id]) # {}
    /\ LatestText(messages[response.thread_id]) = SourcedText
    /\ supabase.hands_summary_data = <<row("assistant", response.thread_id, PlainText)>>
    /\ Len(supabase.chatbot_data) = 1
    /\ response.resp.message = PlainText

\* Thread t has been removed from the map: a user message of t has been posted
\* (the step that posts one puts t into the map, main.py:177-180, 197-199) and
\* t is not in the map.
Removed(t) ==
    /\ t \in created
    /\ \E i \in 1..Len(messages[t]) : messages[t][i].text_messages = <<UserText>>
    /\ ~dict_has(ONGOING_THREADS, t)

\* C15: a thread that has been removed from the map, by a sweep cycle or by
\* /end_conversation, never enters the map again.
C15_RemovedForGood ==
    [][\A t \in Threads : Removed(t) => Removed(t)']_vars

\* what insert_chatbot_message returns as the message for an assistant text
Returned(text) ==
    IF extract_json(remove_source(text)).ok
    THEN extract_json(remove_source(text)).value
    ELSE remove_source(text)

\* C16: the assistant reply that a /chat or a /start request extracts, stores
\* and returns is never a message of another run: when it is a message at all
\* (not the placeholder "No response"), it is the text of an assistant message
\* that the request's own run has produced.
C16_ReplyOfOwnRun ==
    [][\A t \in Threads : Reads(t) =>
        LET own == Len(runs'[t])
            ml == messages'[t]
            Own == {i \in AssistantTexts(ml) : ml[i].run = own}
            chats == {p \in Procs : /\ handlers[p].pc # "appointment"
                                    /\ handlers'[p].pc = "appointment"
                                    /\ handlers'[p].thread_id = t}
            replies == {handlers'[p].chatbot_message.message : p \in chats}
                       \cup (IF Answers("start") /\ response'.thread_id = t
                             THEN {response'.chatbot_message} ELSE {})
        IN \A r \in replies :
              r # "No response" =>
                  \E i \in Own : r = Returned(ml[i].text_messages[Len(ml[i].text_messages)])]_vars

====
